---- MODULE Spec2Model ----
(***************************************************************************)
(* The Code Mutation Engine of commit-scheduler (src/daily_commits.py):    *)
(* run_dynamic_commits iterates the configured repositories, and for each  *)
(* one make_dynamic_commit discovers files, selects a section, asks the    *)
(* provider for a replacement, splices it into the file and drives git     *)
(* through add / diff --cached / commit / push.                            *)
(*                                                                         *)
(* Text is a sequence of one-character strings; a file is the sequence of  *)
(* the lines read_text().split('\n') gives.                                *)
(***************************************************************************)
EXTENDS Integers, Sequences, FiniteSets, TLC

(***************************************************************************)
(* Text helpers: the str methods the engine uses.                          *)
(***************************************************************************)
Rep(c, n) == [i \in 1..n |-> c]

Whitespace == {" ", "\t", "\n", "\r"}

RECURSIVE LStrip(_)
LStrip(s) ==
    IF s = <<>> THEN <<>>
    ELSE IF Head(s) \in Whitespace THEN LStrip(Tail(s)) ELSE s

RECURSIVE RStrip(_)
RStrip(s) ==
    IF s = <<>> THEN <<>>
    ELSE IF s[Len(s)] \in Whitespace THEN RStrip(SubSeq(s, 1, Len(s) - 1)) ELSE s

\* str.strip()
Strip(s) == RStrip(LStrip(s))

\* str.startswith(p)
StartsWith(s, p) == Len(s) >= Len(p) /\ SubSeq(s, 1, Len(p)) = p

\* str.endswith(p)
EndsWith(s, p) == Len(s) >= Len(p) /\ SubSeq(s, Len(s) - Len(p) + 1, Len(s)) = p

\* the test sub in s
Contains(s, sub) ==
    \E i \in 1..(Len(s) - Len(sub) + 1) : SubSeq(s, i, i + Len(sub) - 1) = sub

\* str.split('\n'): always at least one piece; "a\n" gives <<"a", "">>
RECURSIVE SplitLines(_)
SplitLines(s) ==
    IF \A i \in 1..Len(s) : s[i] # "\n" THEN <<s>>
    ELSE LET k == CHOOSE i \in 1..Len(s) :
                      s[i] = "\n" /\ \A j \in 1..(i - 1) : s[j] # "\n"
         IN <<SubSeq(s, 1, k - 1)>> \o SplitLines(SubSeq(s, k + 1, Len(s)))

\* '\n'.join(lines)
RECURSIVE JoinLines(_)
JoinLines(lines) ==
    IF lines = <<>> THEN <<>>
    ELSE IF Len(lines) = 1 THEN lines[1]
    ELSE lines[1] \o <<"\n">> \o JoinLines(Tail(lines))

\* st_size of a file holding these lines (one byte per character)
ByteSize(lines) == Len(JoinLines(lines))

(***************************************************************************)
(* Configuration (load_config defaults) and the fixed string tables.       *)
(***************************************************************************)
file_extensions ==
    << <<".", "t", "s">>, <<".", "j", "s">>, <<".", "t", "s", "x">>,
       <<".", "j", "s", "x">>, <<".", "p", "y">>, <<".", "j", "a", "v", "a">>,
       <<".", "g", "o">>, <<".", "r", "s">> >>

ignore_patterns ==
    << <<"n", "o", "d", "e", "_", "m", "o", "d", "u", "l", "e", "s">>,
       <<".", "g", "i", "t">>,
       <<"d", "i", "s", "t">>,
       <<"b", "u", "i", "l", "d">>,
       <<"_", "_", "p", "y", "c", "a", "c", "h", "e", "_", "_">> >>

\* the fixed exclusions of find_code_files
SystemSkips ==
    << <<"v", "e", "n", "v">>,
       <<"s", "i", "t", "e", "-", "p", "a", "c", "k", "a", "g", "e", "s">>,
       <<".", "g", "i", "t">>,
       <<"n", "o", "d", "e", "_", "m", "o", "d", "u", "l", "e", "s">> >>

\* the generated-artifact markers of make_dynamic_commit
GeneratedMarkers ==
    << <<"f", "i", "x", "e", "s">>,
       <<"f", "e", "a", "t", "u", "r", "e", "s">>,
       <<"p", "e", "r", "f", "o", "r", "m", "a", "n", "c", "e">>,
       <<"s", "e", "c", "u", "r", "i", "t", "y">> >>

MinFileSize == 50
MaxFileSize == 50000
MinExistingSize == 200
MinMeaningfulLen == 10
MinMeaningfulLines == 3
MinSectionSize == 2
MaxSectionSize == 3
MaxAttempts == 5

Range(seq) == {seq[i] : i \in DOMAIN seq}

(***************************************************************************)
(* The managed repositories and the files in them.                         *)
(***************************************************************************)
RepoA == <<"/", "r", "a">>
RepoB == <<"/", "r", "b">>
RepoC == <<"/", "r", "c">>
Repos == {RepoA, RepoB, RepoC}

AppPy   == <<"/", "r", "a", "/", "a", "p", "p", ".", "p", "y">>
UtilPy  == <<"/", "r", "a", "/", "u", "t", "i", "l", ".", "p", "y">>
FixesPy == <<"/", "r", "a", "/", "f", "i", "x", "e", "s", "/", "p", ".", "p", "y">>
DistJs  == <<"/", "r", "a", "/", "d", "i", "s", "t", "/", "o", ".", "j", "s">>
NotesMd == <<"/", "r", "a", "/", "n", "o", "t", "e", "s", ".", "m", "d">>
TinyPy  == <<"/", "r", "b", "/", "t", "i", "n", "y", ".", "p", "y">>
EdgePy  == <<"/", "r", "b", "/", "e", "d", "g", "e", ".", "p", "y">>
XPy     == <<"/", "r", "c", "/", "x", ".", "p", "y">>
Files == {AppPy, UtilPy, FixesPy, DistJs, NotesMd, TinyPy, EdgePy, XPy}

\* app.py: three meaningful lines, a comment between the first two and a
\* short line between the last two
AppLines ==
    << Rep("a", 70),
       <<"#", " ">> \o Rep("c", 10),
       <<" ", " ">> \o Rep("b", 70),
       Rep("s", 5),
       Rep("d", 70) >>

\* two long lines only: fewer meaningful lines than a section needs
TwoLines == << Rep("e", 110), Rep("f", 110) >>

InitialFiles ==
    [f \in Files |->
        CASE f = AppPy   -> AppLines
          [] f = UtilPy  -> TwoLines
          [] f = FixesPy -> TwoLines
          [] f = DistJs  -> TwoLines
          [] f = NotesMd -> TwoLines
          [] f = TinyPy  -> << Rep("t", 60) >>
          [] f = EdgePy  -> << Rep("g", MinExistingSize) >>
          [] f = XPy     -> << Rep("x", 20) >>]

(***************************************************************************)
(* find_code_files: what the walk over files (path -> lines) returns.      *)
(***************************************************************************)
\* repo.rglob("*" + ext): the paths below the root whose name ends in ext
RGlob(files, repo_path, ext) ==
    {f \in DOMAIN files : StartsWith(f, repo_path \o <<"/">>) /\ EndsWith(f, ext)}

\* the filters without the fixed exclusions of line 139
PassesDiscoveryNoSystemSkips(file_str, file_size) ==
    /\ ~ \E pattern \in Range(ignore_patterns) : Contains(file_str, pattern)
    /\ ~ (file_size < MinFileSize \/ file_size > MaxFileSize)

\* the three continue filters of the walk, for one path and its st_size
PassesDiscovery(file_str, file_size) ==
    /\ ~ \E pattern \in Range(ignore_patterns) : Contains(file_str, pattern)
    /\ ~ \E skip \in Range(SystemSkips) : Contains(file_str, skip)
    /\ ~ (file_size < MinFileSize \/ file_size > MaxFileSize)

find_code_files(files, repo_path) ==
    {f \in DOMAIN files :
        /\ \E ext \in Range(file_extensions) : f \in RGlob(files, repo_path, ext)
        /\ PassesDiscovery(f, ByteSize(files[f]))}

\* a narrowing that looks at the path only
IsExistingFileAnySize(file_str, file_size) ==
    ~ \E skip \in Range(GeneratedMarkers) : Contains(file_str, skip)

\* the narrowing with "at least 200 bytes"
IsExistingFileAtLeast(file_str, file_size) ==
    /\ ~ \E skip \in Range(GeneratedMarkers) : Contains(file_str, skip)
    /\ file_size >= MinExistingSize

\* the narrowing at the head of make_dynamic_commit
IsExistingFile(file_str, file_size) ==
    /\ ~ \E skip \in Range(GeneratedMarkers) : Contains(file_str, skip)
    /\ file_size > MinExistingSize

ExistingFiles(files, code_files) ==
    {f \in code_files : IsExistingFile(f, ByteSize(files[f]))}

(***************************************************************************)
(* select_random_code_section                                              *)
(***************************************************************************)
CommentOpeners == { <<"/", "/">>, <<"#">>, <<"/", "*">>, <<"*">> }

IsMeaningful(line) ==
    LET stripped == Strip(line)
    IN /\ stripped # <<>>
       /\ \A c \in CommentOpeners : ~StartsWith(stripped, c)
       /\ Len(stripped) > MinMeaningfulLen

\* the (zero-based index, line) pairs that survive the filter, in file order
MeaningfulLines(lines) ==
    SelectSeq([i \in 1..Len(lines) |-> <<i - 1, lines[i]>>],
              LAMBDA p : IsMeaningful(p[2]))

Min(a, b) == IF a < b THEN a ELSE b

\* sections of 3 to 8 meaningful lines
SelectableSectionsThreeToEight(lines) ==
    LET meaningful_lines == MeaningfulLines(lines)
        n == Len(meaningful_lines)
    IN IF n < MinMeaningfulLines THEN {}
       ELSE {SubSeq(meaningful_lines, start_idx + 1, start_idx + section_size) :
                <<section_size, start_idx>> \in
                    {sp \in (3..Min(8, n)) \X (0..n) : sp[2] <= n - sp[1]}}

\* every slice random.randint can pick; {} when the function returns None
SelectableSections(lines) ==
    LET meaningful_lines == MeaningfulLines(lines)
        n == Len(meaningful_lines)
    IN IF n < MinMeaningfulLines THEN {}
       ELSE {SubSeq(meaningful_lines, start_idx + 1, start_idx + section_size) :
                <<section_size, start_idx>> \in
                    {sp \in (MinSectionSize..Min(MaxSectionSize, n)) \X (0..n) :
                        sp[2] <= n - sp[1]}}

Lower(c) ==
    CASE c = "P" -> "p" [] c = "Y" -> "y" [] c = "J" -> "j" [] c = "S" -> "s"
      [] c = "T" -> "t" [] c = "X" -> "x" [] c = "G" -> "g" [] c = "O" -> "o"
      [] c = "R" -> "r" [] c = "A" -> "a" [] c = "V" -> "v"
      [] OTHER -> c

\* Path.suffix: from the last dot of the final component, "" without one
Suffix(path) ==
    LET slashes == {i \in 1..Len(path) : path[i] = "/"}
        from == IF slashes = {} THEN 1
                ELSE 1 + CHOOSE i \in slashes : \A j \in slashes : j <= i
        name == SubSeq(path, from, Len(path))
        dots == {i \in 2..Len(name) : name[i] = "."}
    IN IF dots = {} \/ name[Len(name)] = "." THEN <<>>
       ELSE SubSeq(name, CHOOSE i \in dots : \A j \in dots : j <= i, Len(name))

detect_language(file_path) ==
    LET ext == [i \in 1..Len(Suffix(file_path)) |-> Lower(Suffix(file_path)[i])]
    IN CASE ext = <<".", "t", "s">> -> "typescript"
         [] ext = <<".", "t", "s", "x">> -> "typescript"
         [] ext = <<".", "j", "s">> -> "javascript"
         [] ext = <<".", "j", "s", "x">> -> "javascript"
         [] ext = <<".", "p", "y">> -> "python"
         [] ext = <<".", "j", "a", "v", "a">> -> "java"
         [] ext = <<".", "g", "o">> -> "go"
         [] ext = <<".", "r", "s">> -> "rust"
         [] OTHER -> "unknown"

\* the dict select_random_code_section returns ('content' is the join of
\* 'all_lines' and is not read again)
CodeSection(file_path, all_lines, selected_lines) ==
    [file_path |-> file_path,
     lines     |-> selected_lines,
     all_lines |-> all_lines,
     language  |-> detect_language(file_path)]

NoSection == [file_path |-> <<>>, lines |-> <<>>, all_lines |-> <<>>, language |-> ""]

\* '\n'.join([line[1] for line in code_section['lines']])
SelectedText(code_section) ==
    JoinLines([i \in 1..Len(code_section.lines) |-> code_section.lines[i][2]])

(***************************************************************************)
(* get_improvement_prompt, call_openai, generate_commit_message            *)
(***************************************************************************)
PromptTemplates == {"improve_performance", "add_error_handling",
                    "improve_readability", "optimize_code"}

\* the rendered f-string, as its parts: instruction, language, tail, code
RenderPrompt(template, language, code_text) ==
    << CASE template = "improve_performance" -> "Improve the performance of this "
         [] template = "add_error_handling" -> "Add proper error handling to this "
         [] template = "improve_readability" -> "Make this "
         [] template = "optimize_code" -> "Optimize this ",
       language,
       CASE template = "improve_performance" ->
                " code. Only return the improved code, no explanations:\n\n"
         [] template = "add_error_handling" ->
                " code. Only return the improved code, no explanations:\n\n"
         [] template = "improve_readability" ->
                " code more readable and clean. Only return the improved code, no explanations:\n\n"
         [] template = "optimize_code" ->
                " code for better efficiency. Only return the improved code, no explanations:\n\n",
       code_text >>

\* the lookup with the first template as its default
get_improvement_promptFirstDefault(code_section, modification_type) ==
    IF modification_type \in PromptTemplates
    THEN RenderPrompt(modification_type, code_section.language,
                      SelectedText(code_section))
    ELSE RenderPrompt("improve_performance", code_section.language,
                      SelectedText(code_section))

\* line 228: prompts.get(modification_type, prompts["improve_readability"])
get_improvement_prompt(code_section, modification_type) ==
    IF modification_type \in PromptTemplates
    THEN RenderPrompt(modification_type, code_section.language,
                      SelectedText(code_section))
    ELSE RenderPrompt("improve_readability", code_section.language,
                      SelectedText(code_section))

\* the backquote character, by a name
BackQuote == "BQ"

Fence == <<BackQuote, BackQuote, BackQuote>>

NonWordChars == Whitespace \cup {BackQuote, "#", "/", "*", ".", "-", "(", ")", ":", "="}

RECURSIVE DropWord(_)
DropWord(s) ==
    IF s = <<>> \/ Head(s) \in NonWordChars THEN s ELSE DropWord(Tail(s))

\* re.sub of the opening fence: three backquotes, \w*, one optional newline
StripOpeningFence(s) ==
    IF ~StartsWith(s, Fence) THEN s
    ELSE LET rest == DropWord(SubSeq(s, 4, Len(s)))
         IN IF rest # <<>> /\ Head(rest) = "\n" THEN Tail(rest) ELSE rest

\* re.sub of the closing fence: one optional newline, three backquotes, $
\* ($ also matches before one final newline)
StripClosingFence(s) ==
    LET body == IF s # <<>> /\ s[Len(s)] = "\n" /\ EndsWith(SubSeq(s, 1, Len(s) - 1), Fence)
                THEN SubSeq(s, 1, Len(s) - 1) ELSE s
        tail == IF body = s THEN <<>> ELSE <<"\n">>
    IN IF ~EndsWith(body, Fence) THEN s
       ELSE LET cut == SubSeq(body, 1, Len(body) - 3)
            IN (IF cut # <<>> /\ cut[Len(cut)] = "\n"
                THEN SubSeq(cut, 1, Len(cut) - 1) ELSE cut) \o tail

\* a provider reply is an API error, or the message content (possibly empty)
ApiError == [ok |-> FALSE, content |-> <<>>]
Reply(content) == [ok |-> TRUE, content |-> content]

NoResult == [some |-> FALSE, text |-> <<>>]
Result(text) == [some |-> TRUE, text |-> text]

\* what call_openai returns for a reply: None, or the cleaned text
call_openai(reply) ==
    IF ~reply.ok \/ reply.content = <<>> THEN NoResult
    ELSE Result(StripClosingFence(StripOpeningFence(Strip(reply.content))))

generate_commit_message(modification_type) ==
    CASE modification_type = "improve_performance" -> "perf: optimize code performance"
      [] modification_type = "add_error_handling" -> "fix: improve error handling"
      [] modification_type = "improve_readability" -> "refactor: improve code readability"
      [] modification_type = "add_documentation" -> "docs: add code comments"
      [] modification_type = "optimize_code" -> "perf: optimize implementation"
      [] modification_type = "add_type_safety" -> "feat: enhance type safety"
      [] modification_type = "refactor_logic" -> "refactor: simplify logic"
      [] OTHER -> "chore: improve code quality"

(***************************************************************************)
(* apply_code_modification: the line sequence it writes.                   *)
(***************************************************************************)
\* the splice with all_lines[end_line:] for the tail
modified_linesKeepingEnd(code_section, improved_code) ==
    LET all_lines  == code_section.all_lines
        start_line == code_section.lines[1][1]
        end_line   == code_section.lines[Len(code_section.lines)][1]
        new_lines  == SplitLines(improved_code)
    IN SubSeq(all_lines, 1, start_line)
         \o new_lines
         \o SubSeq(all_lines, end_line + 1, Len(all_lines))

\* lines 265-277
modified_lines(code_section, improved_code) ==
    LET all_lines  == code_section.all_lines
        start_line == code_section.lines[1][1]
        end_line   == code_section.lines[Len(code_section.lines)][1]
        new_lines  == SplitLines(improved_code)
    IN SubSeq(all_lines, 1, start_line)
         \o new_lines
         \o SubSeq(all_lines, end_line + 2, Len(all_lines))

\* file_path.write_text(content): what read_text().split('\n') gives afterwards
WrittenLines(lines) == SplitLines(JoinLines(lines))

(***************************************************************************)
(* The inputs of a run: the configuration and what the collaborators       *)
(* (provider, file system, git) may answer.                                *)
(***************************************************************************)
MaxRepos == 2

\* the repository lists of the configuration: no path listed twice
RepoLists ==
    {l \in UNION {[1..n -> Repos] : n \in 0..MaxRepos} :
        \A i, j \in DOMAIN l : l[i] = l[j] => i = j}

\* the modification-type vocabularies of the configuration: one type with a
\* prompt template and a commit message, one with a commit message only, one
\* with neither; and the empty vocabulary
ModificationTypeLists ==
    { <<"improve_performance", "add_documentation", "custom_type">>, <<>> }

\* the message contents the provider may send back for a prompt: nothing,
\* the code it was sent (padded with blanks), the same inside a code fence,
\* an empty code fence, three new lines, and the first three lines of app.py
ProviderReplies(prompt) ==
    LET code_text == prompt[4]
    IN { ApiError,
         Reply(<<>>),
         Reply(<<" ">> \o code_text \o <<"\n">>),
         Reply(Fence \o <<"p", "y", "\n">> \o code_text \o <<"\n">> \o Fence),
         Reply(Fence \o <<"\n">> \o Fence),
         Reply(Rep("y", 12) \o <<"\n", "\n">> \o Rep("w", 12)),
         Reply(JoinLines(SubSeq(AppLines, 1, 3))) }

\* stderr of a git command that exits non-zero
GitStderr == {"fatal: unable to access", "error: could not lock"}

\* str(e) of the exceptions the collaborators raise
StatError  == "[Errno 13] Permission denied"
SpawnError == "[Errno 2] No such file or directory: 'git'"
ChoiceError == "Cannot choose from an empty sequence"

(***************************************************************************)
(* State                                                                   *)
(***************************************************************************)
VARIABLES
    repositories,       \* config["repositories"]
    modification_types, \* config["modification_types"]
    files,              \* the working trees: path -> lines
    index,              \* git: the staged content of each path
    head,               \* git: the content of each path at HEAD
    history,            \* git: repository -> the commit messages of its local branch
    remote,             \* git: repository -> how many of them the remote has
    pc,                 \* where the run is
    idx,                \* run_dynamic_commits: position in repositories
    results,            \* run_dynamic_commits: repo_path -> entry
    clock,              \* datetime.now()
    code_files,         \* make_dynamic_commit: what find_code_files returned
    existing_files,     \* make_dynamic_commit: the eligible files
    attempt,            \* make_dynamic_commit: attempts started
    code_section,       \* make_dynamic_commit: the section of this attempt
    modification_type,  \* make_dynamic_commit: the type of this attempt
    improved_code,      \* make_dynamic_commit: the provider's text
    commit_message,     \* commit_and_push: its argument
    ret,                \* what make_dynamic_commit returns
    invoked,            \* history: the repo_paths make_dynamic_commit was called with
    provider_calls,     \* history: provider calls of this make_dynamic_commit
    applied,            \* history: successful applies of this make_dynamic_commit
    git_ops,            \* history: git commands of this make_dynamic_commit, with outcome
    first_fault,        \* history: the first collaborator fault of this make_dynamic_commit
    last_outcome,       \* history: how the last finished attempt ended ("" while one runs)
    peer,               \* a second invocation of the engine on the same files (idle in a serial run)
    before_apply        \* history: the working trees as this make_dynamic_commit's write found them

config_vars == <<repositories, modification_types>>
git_vars    == <<index, head, history, remote>>
run_vars    == <<idx, results, clock, invoked>>
local_vars  == <<code_files, existing_files, attempt, code_section, modification_type,
                 improved_code, commit_message>>
ghost_vars  == <<provider_calls, applied, git_ops, first_fault, last_outcome>>
vars == <<config_vars, files, git_vars, pc, run_vars, local_vars, ret, ghost_vars, peer,
          before_apply>>

\* the locals of the second invocation: where it is, its existing_files, its
\* code_section, modification_type and improved_code; as history, under is
\* the code_section this invocation held on the same file when the second
\* one wrote it, and during the attempt this invocation was in then
NoPeer ==
    [pc |-> "idle", existing_files |-> {}, code_section |-> NoSection,
     modification_type |-> "", improved_code |-> <<>>,
     under |-> NoSection, during |-> 0]

NoReturn == [success |-> FALSE, message |-> ""]
Return(success, message) == [success |-> success, message |-> message]

\* nothing has run yet
Fresh ==
    /\ files = InitialFiles
    /\ index = InitialFiles
    /\ head = InitialFiles
    /\ history = [r \in Repos |-> <<>>]
    /\ remote = [r \in Repos |-> 0]
    /\ pc = "start"
    /\ idx = 0
    /\ results = <<>>
    /\ clock = 0
    /\ code_files = {}
    /\ existing_files = {}
    /\ attempt = 0
    /\ code_section = NoSection
    /\ modification_type = ""
    /\ improved_code = <<>>
    /\ commit_message = ""
    /\ ret = NoReturn
    /\ invoked = <<>>
    /\ provider_calls = 0
    /\ applied = 0
    /\ git_ops = <<>>
    /\ first_fault = ""
    /\ last_outcome = ""
    /\ peer = NoPeer
    /\ before_apply = <<>>

Init ==
    /\ repositories \in RepoLists
    /\ modification_types \in ModificationTypeLists
    /\ Fresh

(***************************************************************************)
(* run_dynamic_commits                                                     *)
(***************************************************************************)
repo_path == repositories[idx]

InRepo(f, repo) == StartsWith(f, repo \o <<"/">>)

\* a collaborator (file system, provider, git) fails: the first one is kept
Fault(kind) == first_fault' = IF first_fault = "" THEN kind ELSE first_fault

\* make_dynamic_commit returns r to run_dynamic_commits
Returns(r) == ret' = r /\ pc' = "record"

\* a failure that goes back to the provider call instead of the loop head
NextAttemptAtProvider(outcome) ==
    /\ pc' = "provider"
    /\ last_outcome' = outcome
    /\ code_section' = NoSection
    /\ modification_type' = ""
    /\ improved_code' = <<>>

\* a failed write that is tried again with the section already held
NextAttemptRetryingWrite(outcome) ==
    IF outcome = "write_failed"
    THEN /\ pc' = "apply"
         /\ last_outcome' = outcome
         /\ UNCHANGED <<code_section, modification_type, improved_code>>
    ELSE /\ pc' = "attempt"
         /\ last_outcome' = outcome
         /\ code_section' = NoSection
         /\ modification_type' = ""
         /\ improved_code' = <<>>

\* continue: on to the next attempt; the attempt's locals are dead
NextAttempt(outcome) ==
    /\ pc' = "attempt"
    /\ last_outcome' = outcome
    /\ code_section' = NoSection
    /\ modification_type' = ""
    /\ improved_code' = <<>>

\* lines 395-403: no repositories -> {} is returned; else the loop starts
RunStart ==
    /\ pc = "start"
    /\ IF repositories = <<>>
       THEN pc' = "done" /\ idx' = idx
       ELSE pc' = "discover" /\ idx' = 1
    /\ UNCHANGED <<config_vars, peer, before_apply, files, git_vars, results, clock, invoked,
                   local_vars, ret, ghost_vars>>

AdvanceUnlessFailed ==
    IF idx < Len(repositories) /\ ret.success
    THEN pc' = "discover" /\ idx' = idx + 1
    ELSE pc' = "done" /\ idx' = idx

\* a loop that ends at the first repository committed to
AdvanceUntilSuccess ==
    IF idx < Len(repositories) /\ ~ret.success
    THEN pc' = "discover" /\ idx' = idx + 1
    ELSE pc' = "done" /\ idx' = idx

\* line 403: the for loop goes to the next repository, or ends
Advance ==
    IF idx < Len(repositories)
    THEN pc' = "discover" /\ idx' = idx + 1
    ELSE pc' = "done" /\ idx' = idx

\* lines 405-410: the entry of the repository, time-stamped, and the next
\* repository; after the last one the summary is logged and results returned.
\* The frame of make_dynamic_commit, and the history kept of it, end here.
RecordResult ==
    /\ pc = "record"
    /\ results' = [r \in DOMAIN results \cup {repo_path} |->
                     IF r = repo_path
                     THEN [success |-> ret.success, message |-> ret.message,
                           timestamp |-> clock]
                     ELSE results[r]]
    /\ clock' = clock + 1
    /\ Advance
    /\ code_files' = {}
    /\ existing_files' = {}
    /\ attempt' = 0
    /\ commit_message' = ""
    /\ ret' = NoReturn
    /\ provider_calls' = 0
    /\ applied' = 0
    /\ git_ops' = <<>>
    /\ first_fault' = ""
    /\ last_outcome' = ""
    /\ before_apply' = <<>>
    /\ UNCHANGED <<config_vars, peer, files, git_vars, invoked, code_section,
                   modification_type, improved_code>>

\* the summary of lines 426-427
Successful == Cardinality({r \in DOMAIN results : results[r].success})
Failed == Cardinality(DOMAIN results) - Successful

(***************************************************************************)
(* make_dynamic_commit                                                     *)
(***************************************************************************)
\* lines 361-362: the except clause of make_dynamic_commit
ErrorInDynamicCommit(e) == Returns(Return(FALSE, "Error in dynamic commit: " \o e))

\* lines 306-323: discovery and the narrowing to the existing files; a
\* stat() that raises (in the walk, or in the narrowing) reaches the except
\* clause
Discover ==
    /\ pc = "discover"
    /\ invoked' = Append(invoked, repo_path)
    /\ provider_calls' = 0
    /\ applied' = 0
    /\ git_ops' = <<>>
    /\ attempt' = 0
    /\ code_section' = NoSection
    /\ modification_type' = ""
    /\ improved_code' = <<>>
    /\ commit_message' = ""
    /\ last_outcome' = ""
    /\ LET found == find_code_files(files, repo_path)
           existing == ExistingFiles(files, found)
       IN \/ /\ first_fault' = "discovery"
             /\ code_files' = {}
             /\ existing_files' = {}
             /\ ErrorInDynamicCommit(StatError)
          \/ /\ first_fault' = ""
             /\ code_files' = found
             /\ IF found = {}
                THEN /\ existing_files' = {}
                     /\ Returns(Return(FALSE, "No suitable code files found"))
                ELSE IF existing = {}
                THEN /\ existing_files' = {}
                     /\ Returns(Return(FALSE, "No existing source files found to modify"))
                ELSE /\ existing_files' = existing
                     /\ pc' = "attempt"
                     /\ ret' = NoReturn
    /\ UNCHANGED <<config_vars, peer, before_apply, files, git_vars, idx, results, clock>>

MoreAttemptsOffByOne == attempt <= MaxAttempts

\* line 326: for attempt in range(5)
MoreAttempts == attempt < MaxAttempts

\* line 359: the loop ran out
LoopExhausted ==
    /\ pc = "attempt"
    /\ ~MoreAttempts
    /\ Returns(Return(FALSE, "Could not generate suitable modifications after 5 attempts"))
    /\ UNCHANGED <<config_vars, peer, before_apply, files, git_vars, run_vars, local_vars, ghost_vars>>

\* lines 326-339: pick a file, read it and select a section (a read that
\* raises gives None), choose the modification type (random.choice raises
\* on an empty vocabulary)
SelectSection ==
    /\ pc = "attempt"
    /\ MoreAttempts
    /\ attempt' = attempt + 1
    /\ \E random_file \in existing_files :
         \/ /\ Fault("read")
            /\ NextAttempt("read_failed")
            /\ ret' = ret
         \/ /\ SelectableSections(files[random_file]) = {}
            /\ first_fault' = first_fault
            /\ NextAttempt("no_section")
            /\ ret' = ret
         \/ \E selected_lines \in SelectableSections(files[random_file]) :
              /\ first_fault' = first_fault
              /\ code_section' = CodeSection(random_file, files[random_file], selected_lines)
              /\ improved_code' = <<>>
              /\ last_outcome' = ""
              /\ IF modification_types = <<>>
                 THEN /\ modification_type' = ""
                      /\ ErrorInDynamicCommit(ChoiceError)
                 ELSE /\ modification_type' \in Range(modification_types)
                      /\ pc' = "provider"
                      /\ ret' = ret
    /\ UNCHANGED <<config_vars, peer, before_apply, files, git_vars, run_vars, code_files, existing_files,
                   commit_message, provider_calls, applied, git_ops>>

IsNoOpUntrimmed(improved, original) == improved = original

\* line 348: improved_code.strip() == original_code.strip()
IsNoOp(improved, original) == Strip(improved) = Strip(original)

\* lines 339-349 for one reply of the provider: the call, the empty-result
\* test and the no-op test
CallProviderWith(reply) ==
    /\ pc = "provider"
    /\ provider_calls' = provider_calls + 1
    /\ LET improved == call_openai(reply)
       IN /\ IF reply.ok THEN first_fault' = first_fault ELSE Fault("provider")
          /\ IF ~improved.some \/ improved.text = <<>>
             THEN NextAttempt("no_result")
             ELSE IF IsNoOp(improved.text, SelectedText(code_section))
             THEN NextAttempt("no_op")
             ELSE /\ improved_code' = improved.text
                  /\ pc' = "apply"
                  /\ UNCHANGED <<code_section, modification_type, last_outcome>>
    /\ UNCHANGED <<config_vars, peer, before_apply, files, git_vars, run_vars, code_files, existing_files,
                   attempt, commit_message, ret, applied, git_ops>>

CallProvider ==
    \E reply \in ProviderReplies(get_improvement_prompt(code_section, modification_type)) :
        CallProviderWith(reply)

\* a write that splices into what the file holds now
WriteBackRereading(section, improved) ==
    files' = [files EXCEPT ![section.file_path] =
                 WrittenLines(modified_lines([section EXCEPT !.all_lines = files[section.file_path]],
                                             improved))]

\* lines 265-281: the whole file is replaced by the splice of the lines the
\* section holds; the file is not read again
WriteBack(section, improved) ==
    files' = [files EXCEPT ![section.file_path] =
                 WrittenLines(modified_lines(section, improved))]

\* lines 351-357 and apply_code_modification: the write; a write that raises
\* leaves the file as it was (open failed) or empty (the write failed after
\* open truncated it)
ApplyModification ==
    /\ pc = "apply"
    /\ \/ /\ WriteBack(code_section, improved_code)
          /\ before_apply' = files
          /\ applied' = applied + 1
          /\ commit_message' = generate_commit_message(modification_type)
          /\ pc' = "git_add"
          /\ code_section' = NoSection
          /\ modification_type' = ""
          /\ improved_code' = <<>>
          /\ UNCHANGED <<first_fault, last_outcome>>
       \/ /\ \/ files' = files
             \/ files' = [files EXCEPT ![code_section.file_path] = WrittenLines(<<>>)]
          /\ Fault("write")
          /\ NextAttempt("write_failed")
          /\ UNCHANGED <<applied, commit_message, before_apply>>
    /\ UNCHANGED <<config_vars, peer, git_vars, run_vars, code_files, existing_files,
                   attempt, ret, provider_calls, git_ops>>

(***************************************************************************)
(* commit_and_push, one action per git command.  run_git_command gives     *)
(* (True, stdout) or, on a non-zero exit, (False, stderr); any other       *)
(* exception of subprocess.run reaches the except clause of line 390.      *)
(***************************************************************************)
GitOp(op, outcome, output) == [op |-> op, outcome |-> outcome, output |-> output]

Issued(op, outcome, output) == git_ops' = Append(git_ops, GitOp(op, outcome, output))

RetryOnFailure(r) ==
    IF r.success THEN Returns(r) ELSE pc' = "attempt" /\ ret' = ret

\* line 357: return self.commit_and_push(repo_path, commit_message)
CommitWorkflowReturns(r) == Returns(r)

\* lines 369-370
StageFailed(output) ==
    CommitWorkflowReturns(Return(FALSE, "Failed to stage files: " \o output))

NothingStagedUnchecked(success, names) == ~success

\* line 374: not success or not output.strip()
NothingStaged(success, names) == ~success \/ names = {}

\* line 375
NoChangesToCommit == CommitWorkflowReturns(Return(FALSE, "No changes to commit"))

CommitFailureIgnored(output) == pc' = "git_push" /\ ret' = ret

\* lines 379-380
CommitFailed(output) ==
    CommitWorkflowReturns(Return(FALSE, "Failed to commit: " \o output))

PushFailureSwallowed(output) ==
    /\ CommitWorkflowReturns(Return(TRUE, commit_message))
    /\ UNCHANGED <<head, history>>

PushFailedRollback(output) ==
    /\ CommitWorkflowReturns(Return(FALSE, "Failed to push: " \o output))
    /\ history' = [history EXCEPT ![repo_path] = SubSeq(@, 1, Len(@) - 1)]
    /\ UNCHANGED head

\* lines 384-385: the diagnostic is returned; nothing is undone
PushFailed(output) ==
    /\ CommitWorkflowReturns(Return(FALSE, "Failed to push: " \o output))
    /\ UNCHANGED <<head, history>>

\* lines 387-388
PushSucceeded == CommitWorkflowReturns(Return(TRUE, commit_message))

GitRaisedUncaught(e) == pc' = "raised" /\ ret' = ret

\* lines 390-391: the except clause of commit_and_push
GitRaised(e) ==
    CommitWorkflowReturns(Return(FALSE, "Error during commit process: " \o e))

\* git diff --cached --name-only: the paths whose staged content is not HEAD's
StagedNames(repo) == {f \in Files : InRepo(f, repo) /\ index[f] # head[f]}

\* lines 367-370: git add .
GitAdd ==
    /\ pc = "git_add"
    /\ \/ /\ Issued("add", "ok", "")
          /\ index' = [f \in Files |->
                         IF InRepo(f, repo_path) THEN files[f] ELSE index[f]]
          /\ pc' = "git_diff"
          /\ UNCHANGED <<ret, first_fault>>
       \/ \E output \in GitStderr :
            /\ Issued("add", "failed", output)
            /\ StageFailed(output)
            /\ Fault("git")
            /\ UNCHANGED index
       \/ /\ Issued("add", "raised", SpawnError)
          /\ GitRaised(SpawnError)
          /\ Fault("git")
          /\ UNCHANGED index
    /\ UNCHANGED <<config_vars, peer, before_apply, files, head, history, remote, run_vars, local_vars,
                   provider_calls, applied, last_outcome>>

\* lines 372-375: git diff --cached --name-only
GitDiff ==
    /\ pc = "git_diff"
    /\ \/ /\ Issued("diff", "ok", StagedNames(repo_path))
          /\ IF NothingStaged(TRUE, StagedNames(repo_path))
             THEN NoChangesToCommit
             ELSE pc' = "git_commit" /\ ret' = ret
          /\ UNCHANGED first_fault
       \/ \E output \in GitStderr :
            /\ Issued("diff", "failed", output)
            /\ IF NothingStaged(FALSE, {})
               THEN NoChangesToCommit
               ELSE pc' = "git_commit" /\ ret' = ret
            /\ Fault("git")
       \/ /\ Issued("diff", "raised", SpawnError)
          /\ GitRaised(SpawnError)
          /\ Fault("git")
    /\ UNCHANGED <<config_vars, peer, before_apply, files, git_vars, run_vars, local_vars,
                   provider_calls, applied, last_outcome>>

\* lines 377-380: git commit -m commit_message
GitCommit ==
    /\ pc = "git_commit"
    /\ \/ /\ Issued("commit", "ok", "")
          /\ head' = [f \in Files |->
                        IF InRepo(f, repo_path) THEN index[f] ELSE head[f]]
          /\ history' = [history EXCEPT ![repo_path] = Append(@, commit_message)]
          /\ pc' = "git_push"
          /\ UNCHANGED <<ret, first_fault>>
       \/ \E output \in GitStderr :
            /\ Issued("commit", "failed", output)
            /\ CommitFailed(output)
            /\ Fault("git")
            /\ UNCHANGED <<head, history>>
       \/ /\ Issued("commit", "raised", SpawnError)
          /\ GitRaised(SpawnError)
          /\ Fault("git")
          /\ UNCHANGED <<head, history>>
    /\ UNCHANGED <<config_vars, peer, before_apply, files, index, remote, run_vars, local_vars,
                   provider_calls, applied, last_outcome>>

\* lines 382-388: git push
GitPush ==
    /\ pc = "git_push"
    /\ \/ /\ Issued("push", "ok", "")
          /\ remote' = [remote EXCEPT ![repo_path] = Len(history[repo_path])]
          /\ PushSucceeded
          /\ UNCHANGED <<head, history, first_fault>>
       \/ \E output \in GitStderr :
            /\ Issued("push", "failed", output)
            /\ PushFailed(output)
            /\ Fault("git")
            /\ UNCHANGED remote
       \/ /\ Issued("push", "raised", SpawnError)
          /\ GitRaised(SpawnError)
          /\ Fault("git")
          /\ UNCHANGED <<head, history, remote>>
    /\ UNCHANGED <<config_vars, peer, before_apply, files, index, run_vars, local_vars,
                   provider_calls, applied, last_outcome>>

Next ==
    \/ RunStart
    \/ Discover
    \/ SelectSection
    \/ LoopExhausted
    \/ CallProvider
    \/ ApplyModification
    \/ GitAdd
    \/ GitDiff
    \/ GitCommit
    \/ GitPush
    \/ RecordResult

Spec == Init /\ [][Next]_vars

\* the positions at which the thread is inside a collaborator: the provider
\* call of line 233 and the git commands of line 106, both blocking calls
\* that are given no timeout
GitStages == {"git_add", "git_diff", "git_commit", "git_push"}

CollaboratorStages == {"provider"} \cup GitStages

\* the positions at which the thread runs the engine's own statements
EngineStages == {"start", "discover", "attempt", "apply", "record"}

\* the thread gets past the position: the statement or call there completes
Leaves(stage) == pc = stage /\ pc' \in (EngineStages \cup CollaboratorStages \cup {"done"}) \ {stage}

\* the single thread keeps executing the engine's own statements
EngineRuns == \A stage \in EngineStages : WF_pc(Leaves(stage))

\* every call of the provider and of git returns
CollaboratorsReturn == \A stage \in CollaboratorStages : WF_pc(Leaves(stage))

\* the run with nothing assumed of the collaborators
LiveSpec == Init /\ [][Next]_vars /\ EngineRuns

(***************************************************************************)
(* Two overlapping invocations.  The beat schedule of celery_app.py fires  *)
(* random_schedule_commits four times a day and each firing runs           *)
(* run_dynamic_commits in a fresh DynamicCodeModifier on the same          *)
(* repositories; nothing (no lock, no single-instance check) keeps a       *)
(* firing from starting while an earlier one is still running.  The second *)
(* invocation is followed through its first attempt, up to its write.      *)
(***************************************************************************)
engine_vars == <<config_vars, git_vars, pc, run_vars, local_vars, ret, ghost_vars,
                 before_apply>>

\* the second firing begins: lines 306-323 on the first repository
PeerDiscover ==
    /\ peer.pc = "idle"
    /\ repositories # <<>>
    /\ LET existing == ExistingFiles(files, find_code_files(files, repositories[1]))
       IN peer' = IF existing = {}
                  THEN [peer EXCEPT !.pc = "ended"]
                  ELSE [peer EXCEPT !.pc = "attempt", !.existing_files = existing]
    /\ UNCHANGED <<engine_vars, files>>

\* lines 327-336 in the second invocation
PeerSelect ==
    /\ peer.pc = "attempt"
    /\ \E random_file \in peer.existing_files :
         \/ /\ SelectableSections(files[random_file]) = {} \/ modification_types = <<>>
            /\ peer' = [peer EXCEPT !.pc = "ended"]
         \/ \E selected_lines \in SelectableSections(files[random_file]),
               chosen \in Range(modification_types) :
              peer' = [peer EXCEPT
                          !.pc = "provider",
                          !.code_section = CodeSection(random_file, files[random_file], selected_lines),
                          !.modification_type = chosen]
    /\ UNCHANGED <<engine_vars, files>>

\* what the provider may send back to the second invocation: nothing, or
\* two new lines
PeerReplies == { ApiError, Reply(Rep("z", 12) \o <<"\n">> \o Rep("v", 12)) }

\* lines 339-349 in the second invocation
PeerCallProvider ==
    /\ peer.pc = "provider"
    /\ \E reply \in PeerReplies :
         LET improved == call_openai(reply)
         IN peer' = IF \/ ~improved.some
                       \/ improved.text = <<>>
                       \/ IsNoOp(improved.text, SelectedText(peer.code_section))
                    THEN [peer EXCEPT !.pc = "ended"]
                    ELSE [peer EXCEPT !.pc = "apply", !.improved_code = improved.text,
                                      !.modification_type = ""]
    /\ UNCHANGED <<engine_vars, files>>

\* this invocation holds a code_section of the file the second one writes
HoldsSnapshotOf(file_path) ==
    pc \in {"provider", "apply"} /\ code_section.file_path = file_path

\* lines 351-352 and apply_code_modification in the second invocation
PeerApply ==
    /\ peer.pc = "apply"
    /\ \/ /\ WriteBack(peer.code_section, peer.improved_code)
          /\ peer' = IF HoldsSnapshotOf(peer.code_section.file_path)
                     THEN [peer EXCEPT !.pc = "written", !.under = code_section, !.during = attempt]
                     ELSE [peer EXCEPT !.pc = "written"]
       \/ /\ \/ files' = files
             \/ files' = [files EXCEPT ![peer.code_section.file_path] = WrittenLines(<<>>)]
          /\ peer' = [peer EXCEPT !.pc = "ended"]
    /\ UNCHANGED engine_vars

\* one repository and a vocabulary of one type; the second firing may start
\* at any time
OverlapInit ==
    /\ repositories = <<RepoA>>
    /\ modification_types = <<"improve_performance">>
    /\ Fresh

OverlapNext ==
    \/ Next
    \/ PeerDiscover
    \/ PeerSelect
    \/ PeerCallProvider
    \/ PeerApply

OverlapSpec == OverlapInit /\ [][OverlapNext]_vars

(***************************************************************************)
(* Consecutive runs.  scheduler.py runs run_commits every day (line 66,     *)
(* in the loop of lines 72-74): each firing builds a new                    *)
(* DynamicCodeModifier and calls run_dynamic_commits on the repositories    *)
(* as the run before left them.                                             *)
(***************************************************************************)
MaxRuns == 2

\* the runs finished so far: the clock ticks once per repository and run
RunsDone == clock \div Len(repositories)

\* scheduler.py lines 32-42: the next firing, after the run before returned
NextRun ==
    /\ pc = "done"
    /\ repositories # <<>>
    /\ RunsDone < MaxRuns
    /\ pc' = "start"
    /\ idx' = 0
    /\ results' = <<>>
    /\ UNCHANGED <<config_vars, peer, before_apply, files, git_vars, clock, invoked,
                   local_vars, ret, ghost_vars>>

\* one repository and a vocabulary of one type
RerunInit ==
    /\ repositories = <<RepoA>>
    /\ modification_types = <<"improve_performance">>
    /\ Fresh

RerunNext ==
    \/ Next
    \/ NextRun

RerunSpec == RerunInit /\ [][RerunNext]_vars

(***************************************************************************)
(* The functions of the engine on their own: find_code_files and the       *)
(* narrowing, select_random_code_section, the splice of                    *)
(* apply_code_modification and the two dispatch tables, applied to inputs  *)
(* wider than those a run over InitialFiles meets.                         *)
(***************************************************************************)
Size49Py    == <<"/", "r", "a", "/", "k", "4", "9", ".", "p", "y">>
Size50Py    == <<"/", "r", "a", "/", "k", "5", "0", ".", "p", "y">>
Size51Py    == <<"/", "r", "a", "/", "k", "5", "1", ".", "p", "y">>
Size50000Go == <<"/", "r", "a", "/", "b", "i", "g", ".", "g", "o">>
Size50001Rs == <<"/", "r", "a", "/", "o", "v", "e", "r", ".", "r", "s">>
VenvPy      == <<"/", "r", "a", "/", "v", "e", "n", "v", "/", "v", ".", "p", "y">>
BuildTs     == <<"/", "r", "a", "/", "b", "u", "i", "l", "d", "/", "b", ".", "t", "s">>
RebuildJs   == <<"/", "r", "a", "/", "r", "e", "b", "u", "i", "l", "d", ".", "j", "s">>
DocMd       == <<"/", "r", "a", "/", "d", "o", "c", ".", "m", "d">>
OkTsx       == <<"/", "r", "a", "/", "o", "k", ".", "t", "s", "x">>
FeaturesPy  == <<"/", "r", "a", "/", "f", "e", "a", "t", "u", "r", "e", "s", ".", "p", "y">>
Size200Py   == <<"/", "r", "a", "/", "k", "2", "0", "0", ".", "p", "y">>
Size201Py   == <<"/", "r", "a", "/", "k", "2", "0", "1", ".", "p", "y">>

\* a working tree of repository /ra around the size thresholds and the
\* exclusion lists: one line of the given number of bytes per file
BoundaryFiles ==
    (Size49Py :> <<Rep("z", 49)>>) @@ (Size50Py :> <<Rep("z", 50)>>) @@ (Size51Py :> <<Rep("z", 51)>>)
    @@ (Size50000Go :> <<Rep("z", 50000)>>) @@ (Size50001Rs :> <<Rep("z", 50001)>>)
    @@ (VenvPy :> <<Rep("z", 100)>>) @@ (BuildTs :> <<Rep("z", 100)>>) @@ (RebuildJs :> <<Rep("z", 100)>>) @@ (DocMd :> <<Rep("z", 100)>>) @@ (OkTsx :> <<Rep("z", 300)>>)
    @@ (FeaturesPy :> <<Rep("z", 300)>>) @@ (Size200Py :> <<Rep("z", 200)>>) @@ (Size201Py :> <<Rep("z", 201)>>)

\* a file of ten lines, five of them meaningful, among blank lines, comments
\* and a short line
SectionLines ==
    << <<"i", "m", "p", "o", "r", "t", " ">> \o Rep("a", 6),
       <<>>,
       <<"/", "/", " ">> \o Rep("c", 12),
       Rep("b", 12),
       <<" ", " ", "*", " ">> \o Rep("d", 12),
       Rep("s", 5),
       Rep("e", 12),
       <<"\t">> \o Rep("f", 12),
       Rep("g", 12),
       <<>> >>

SectionFiles == (AppPy :> SectionLines) @@ (UtilPy :> TwoLines)

\* the working trees the functions are applied to
FunctionFiles == {InitialFiles, BoundaryFiles, SectionFiles}

\* replacement texts: empty, one line, several lines (one of them empty),
\* and one ending in a newline
Replacements ==
    { <<>>,
      Rep("z", 12),
      Rep("y", 12) \o <<"\n", "\n">> \o Rep("w", 12),
      Rep("q", 3) \o <<"\n">> }

\* the seven tags of the default vocabulary, and tags outside it
ModificationTags ==
    {"improve_performance", "add_error_handling", "improve_readability",
     "add_documentation", "optimize_code", "add_type_safety", "refactor_logic",
     "custom_type", ""}

FunctionInit ==
    /\ repositories \in {<<RepoA>>, <<RepoB>>, <<RepoC>>}
    /\ modification_types = <<>>
    /\ files \in FunctionFiles
    /\ index = InitialFiles
    /\ head = InitialFiles
    /\ history = [r \in Repos |-> <<>>]
    /\ remote = [r \in Repos |-> 0]
    /\ pc = "function"
    /\ idx = 1
    /\ results = <<>>
    /\ clock = 0
    /\ code_files = {}
    /\ existing_files = {}
    /\ attempt = 0
    /\ code_section = NoSection
    /\ modification_type = ""
    /\ improved_code = <<>>
    /\ commit_message = ""
    /\ ret = NoReturn
    /\ invoked = <<>>
    /\ provider_calls = 0
    /\ applied = 0
    /\ git_ops = <<>>
    /\ first_fault = ""
    /\ last_outcome = ""
    /\ peer = NoPeer
    /\ before_apply = <<>>

\* lines 308-320: find_code_files on the working tree, then the narrowing
ApplyFindCodeFiles ==
    /\ pc = "function"
    /\ code_files' = find_code_files(files, repo_path)
    /\ existing_files' = ExistingFiles(files, code_files')
    /\ pc' = "found"
    /\ UNCHANGED <<config_vars, peer, before_apply, files, git_vars, run_vars, attempt, code_section,
                   modification_type, improved_code, commit_message, ret, ghost_vars>>

\* select_random_code_section on one file: a section, or None
ApplySelect ==
    /\ pc = "function"
    /\ \E file_path \in DOMAIN files :
         /\ InRepo(file_path, repo_path)
         /\ IF SelectableSections(files[file_path]) = {}
            THEN code_section' = NoSection /\ pc' = "none_selected"
            ELSE /\ \E selected_lines \in SelectableSections(files[file_path]) :
                      code_section' = CodeSection(file_path, files[file_path], selected_lines)
                 /\ pc' = "selected"
    /\ UNCHANGED <<config_vars, peer, before_apply, files, git_vars, run_vars, code_files, existing_files,
                   attempt, modification_type, improved_code, commit_message, ret,
                   ghost_vars>>

\* apply_code_modification on the selected section, with any replacement
ApplySplice ==
    /\ pc = "selected"
    /\ \E text \in Replacements :
         /\ improved_code' = text
         /\ files' = [files EXCEPT ![code_section.file_path] =
                         WrittenLines(modified_lines(code_section, text))]
    /\ pc' = "spliced"
    /\ UNCHANGED <<config_vars, peer, before_apply, git_vars, run_vars, code_files, existing_files, attempt,
                   code_section, modification_type, commit_message, ret, ghost_vars>>

\* get_improvement_prompt and generate_commit_message for any tag
ApplyDispatch ==
    /\ pc = "selected"
    /\ \E tag \in ModificationTags :
         /\ modification_type' = tag
         /\ commit_message' = generate_commit_message(tag)
    /\ pc' = "dispatched"
    /\ UNCHANGED <<config_vars, peer, before_apply, files, git_vars, run_vars, code_files, existing_files,
                   attempt, code_section, improved_code, ret, ghost_vars>>

FunctionNext ==
    \/ ApplyFindCodeFiles
    \/ ApplySelect
    \/ ApplySplice
    \/ ApplyDispatch

FunctionSpec == FunctionInit /\ [][FunctionNext]_vars

(***************************************************************************)
(* Properties of the attempt loop                                          *)
(***************************************************************************)
CouldNotGenerate ==
    Return(FALSE, "Could not generate suitable modifications after 5 attempts")
NoExistingFiles == Return(FALSE, "No existing source files found to modify")
NoSuitableFiles == Return(FALSE, "No suitable code files found")

\* C1, as stated: make_dynamic_commit returns "Could not generate suitable
\* modifications after 5 attempts" exactly when eligible files exist and the
\* five attempts were made without a successful apply.
C1_ExhaustedExactly ==
    pc = "record" =>
        (ret = CouldNotGenerate
            <=> (existing_files # {} /\ attempt = MaxAttempts /\ applied = 0))

\* C1, amended: at most 5 attempts are started and the provider is called at
\* most once per attempt; with a non-empty modification-type vocabulary the
\* "Could not generate ..." failure is returned exactly when eligible files
\* exist and the five attempts were made without a successful apply; with an
\* empty vocabulary the first attempt that selects a section ends the loop
\* with "Error in dynamic commit: ...", before any provider call, and "Could
\* not generate ..." is returned only if no attempt of the five selected one.
C1_AttemptBudget ==
    /\ attempt <= MaxAttempts
    /\ provider_calls <= attempt
    /\ provider_calls <= MaxAttempts
    /\ (pc = "record" /\ modification_types # <<>>) =>
          (ret = CouldNotGenerate
              <=> (existing_files # {} /\ attempt = MaxAttempts /\ applied = 0))
    /\ (pc = "record" /\ modification_types = <<>> /\ existing_files # {}) =>
          /\ provider_calls = 0 /\ applied = 0
          /\ ret \in {CouldNotGenerate,
                      Return(FALSE, "Error in dynamic commit: " \o ChoiceError)}
          /\ ret = CouldNotGenerate => attempt = MaxAttempts /\ code_section = NoSection

\* five provider calls, none of them led to an apply, and the loop gave up
C1_Witness ==
    /\ pc = "record"
    /\ ret = CouldNotGenerate
    /\ provider_calls = MaxAttempts
    /\ modification_types # <<>>

\* the commit workflow ran in this make_dynamic_commit: its commands so far
WorkflowStarts == {i \in DOMAIN git_ops : git_ops[i].op = "add"}

LastOp == git_ops[Len(git_ops)]

\* C2: per make_dynamic_commit the Applier succeeds at most once, the commit
\* workflow is entered at most once, no attempt runs after a successful
\* apply, and what is returned after an apply is the commit workflow's
\* outcome, success or failure.
C2_OneMutationPerRun ==
    /\ applied <= 1
    /\ Cardinality(WorkflowStarts) <= 1
    /\ pc \in {"attempt", "provider", "apply"} => applied = 0 /\ git_ops = <<>>
    /\ pc \in {"git_add", "git_diff", "git_commit", "git_push"} => applied = 1
    /\ (pc = "record" /\ applied = 1) =>
          /\ git_ops # <<>>
          /\ ret.success <=> (LastOp.op = "push" /\ LastOp.outcome = "ok")
          /\ ret.success => ret.message = commit_message
          /\ ret \notin {CouldNotGenerate, NoExistingFiles, NoSuitableFiles}
    /\ (pc = "record" /\ applied = 0) => git_ops = <<>>

\* a commit workflow that failed with attempts left: it is returned as it is
C2_Witness ==
    /\ pc = "record"
    /\ applied = 1
    /\ ~ret.success
    /\ attempt < MaxAttempts

\* the candidates and the eligible files of a repository, read off the
\* working tree directly
CandidatesOf(repo) ==
    {f \in Files :
        /\ InRepo(f, repo)
        /\ \E ext \in Range(file_extensions) : EndsWith(f, ext)
        /\ \A p \in Range(ignore_patterns) \cup Range(SystemSkips) : ~Contains(f, p)
        /\ ByteSize(files[f]) >= MinFileSize
        /\ ByteSize(files[f]) <= MaxFileSize}

EligibleOf(repo) ==
    {f \in CandidatesOf(repo) :
        /\ \A m \in Range(GeneratedMarkers) : ~Contains(f, m)
        /\ ByteSize(files[f]) > MinExistingSize}

NothingInvoked == provider_calls = 0 /\ applied = 0 /\ git_ops = <<>>

\* C3, as stated: whenever the repository has no eligible file, Discovery
\* returning nothing included, the result is "No existing source files found
\* to modify" and neither provider, Applier nor git is invoked (read for the
\* runs in which no collaborator fails).
C3_AlwaysNoExisting ==
    (pc = "record" /\ first_fault = "" /\ EligibleOf(repo_path) = {}) =>
        ret = NoExistingFiles /\ NothingInvoked

\* C3, amended: whenever discovery and the narrowing complete and the
\* repository has candidates but no eligible file, the result is "No existing
\* source files found to modify"; when Discovery returns no candidate at all
\* it is "No suitable code files found"; in both cases, and when a stat()
\* fault ends discovery, neither provider, Applier nor git is invoked.
C3_NoEligibleFiles ==
    (pc = "record" /\ EligibleOf(repo_path) = {}) =>
        /\ NothingInvoked
        /\ ~ret.success
        /\ first_fault = "" =>
              ret = IF CandidatesOf(repo_path) = {}
                    THEN NoSuitableFiles ELSE NoExistingFiles
        /\ first_fault # "" =>
              first_fault = "discovery"
                /\ ret = Return(FALSE, "Error in dynamic commit: " \o StatError)

\* a repository with a candidate but nothing eligible was refused
C3_Witness ==
    /\ pc = "record"
    /\ CandidatesOf(repo_path) # {}
    /\ EligibleOf(repo_path) = {}
    /\ ret = NoExistingFiles

\* the provider's text, as call_openai hands it over, is the selected text
\* up to surrounding white space
TrimmedEqual(reply) ==
    /\ call_openai(reply).some
    /\ call_openai(reply).text # <<>>
    /\ Strip(call_openai(reply).text) = Strip(SelectedText(code_section))

\* C4: an attempt whose provider text, trimmed, equals the selected lines
\* joined by newline, trimmed, does not reach the Applier: the file and git
\* are left alone and the loop is at its head again, where the next attempt
\* starts unless the budget of 5 is used up.
C4_NoOpRejected ==
    /\ [][\A reply \in ProviderReplies(get_improvement_prompt(code_section, modification_type)) :
            (TrimmedEqual(reply) /\ CallProviderWith(reply)) =>
                /\ pc' = "attempt"
                /\ last_outcome' = "no_op"
                /\ files' = files
                /\ git_ops' = git_ops /\ index' = index /\ head' = head
                /\ applied' = applied
                /\ attempt' = attempt]_vars
    /\ [](pc = "apply" => Strip(improved_code) # Strip(SelectedText(code_section)))
    /\ []((pc = "attempt" /\ last_outcome = "no_op") =>
              IF attempt < MaxAttempts THEN ENABLED SelectSection
              ELSE ENABLED LoopExhausted)

\* a no-op was rejected with attempts left
C4_Witness ==
    /\ pc = "attempt"
    /\ last_outcome = "no_op"
    /\ attempt < MaxAttempts
    /\ files = InitialFiles

(***************************************************************************)
(* Properties of the commit workflow                                       *)
(***************************************************************************)
WorkflowOrder == <<"add", "diff", "commit", "push">>

\* C5: the git commands of a commit workflow are a prefix of add, diff,
\* commit, push; every command but the last one issued succeeded, and a
\* command after diff was issued only if the staged-name list was not empty.
C5_WorkflowOrder ==
    /\ Len(git_ops) <= Len(WorkflowOrder)
    /\ \A i \in DOMAIN git_ops :
          /\ git_ops[i].op = WorkflowOrder[i]
          /\ i < Len(git_ops) =>
                /\ git_ops[i].outcome = "ok"
                /\ git_ops[i].op = "diff" => git_ops[i].output # {}

\* commit failed: three commands were issued and the workflow returned
C5_Witness ==
    /\ pc = "record"
    /\ Len(git_ops) = 3
    /\ LastOp.op = "commit"
    /\ LastOp.outcome = "failed"

\* C6: when staging succeeded and the staged-name list after it is empty,
\* the workflow returns (False, "No changes to commit") and issues neither
\* commit nor push.
C6_NoChangesToCommit ==
    (/\ Len(git_ops) >= 2
     /\ git_ops[1] = GitOp("add", "ok", "")
     /\ git_ops[2] = GitOp("diff", "ok", {})) =>
        /\ Len(git_ops) = 2
        /\ pc = "record"
        /\ ret = Return(FALSE, "No changes to commit")

\* the write left the file as HEAD has it: nothing was staged
C6_Witness ==
    /\ pc = "record"
    /\ Len(git_ops) = 2
    /\ git_ops[2] = GitOp("diff", "ok", {})
    /\ applied = 1

AllSucceeded ==
    /\ Len(git_ops) = 4
    /\ \A i \in DOMAIN git_ops : git_ops[i].outcome = "ok"
    /\ git_ops[2].output # {}

FailureText(op) ==
    CASE op = "add" -> "Failed to stage files: "
      [] op = "commit" -> "Failed to commit: "
      [] op = "push" -> "Failed to push: "

\* C7: the workflow reports success exactly when add, diff (with a non-empty
\* list), commit and push all succeeded, and then with the commit message it
\* was given; when add, commit or push exits non-zero the result is a failure
\* whose message carries that command's stderr.
C7_SuccessIffAllSteps ==
    (pc = "record" /\ git_ops # <<>>) =>
        /\ ret.success <=> AllSucceeded
        /\ ret.success => ret.message = commit_message /\ commit_message # ""
        /\ (LastOp.outcome = "failed" /\ LastOp.op # "diff") =>
              ret = Return(FALSE, FailureText(LastOp.op) \o LastOp.output)
        /\ (LastOp.outcome = "failed" /\ LastOp.op = "diff") =>
              ret = Return(FALSE, "No changes to commit")
        /\ LastOp.outcome = "raised" =>
              ret = Return(FALSE, "Error during commit process: " \o LastOp.output)

\* all four commands succeeded
C7_Witness ==
    /\ pc = "record"
    /\ AllSucceeded
    /\ ret = Return(TRUE, commit_message)

PushJustFailed(output) == git_ops' = Append(git_ops, GitOp("push", "failed", output))

\* C8: when push exits non-zero after a successful commit, the workflow
\* returns (False, "Failed to push: " + stderr) at once; the commit stays the
\* last one of the local branch, the remote does not have it, and no git
\* command follows.
C8_PushFailureKeepsCommit ==
    /\ [][\A output \in GitStderr :
            PushJustFailed(output) =>
                /\ history' = history /\ head' = head /\ index' = index
                /\ remote' = remote
                /\ pc' = "record"
                /\ ret' = Return(FALSE, "Failed to push: " \o output)]_vars
    /\ [][(git_ops # <<>> /\ LastOp.op = "push") => git_ops' \in {git_ops, <<>>}]_vars
    /\ []((pc = "record" /\ git_ops # <<>> /\ LastOp.op = "push" /\ LastOp.outcome = "failed") =>
              /\ history[repo_path] # <<>>
              /\ history[repo_path][Len(history[repo_path])] = commit_message
              /\ remote[repo_path] < Len(history[repo_path])
              /\ StagedNames(repo_path) = {})

\* push failed: the commit is in the local history, not on the remote
C8_Witness ==
    /\ pc = "record"
    /\ Len(git_ops) = 4
    /\ LastOp.outcome = "failed"
    /\ Len(history[repo_path]) = 1
    /\ remote[repo_path] = 0

(***************************************************************************)
(* Properties of the run                                                   *)
(***************************************************************************)
Prefix(a, b) == Len(a) <= Len(b) /\ a = SubSeq(b, 1, Len(a))

\* C9: make_dynamic_commit is called once per listed repository, in list
\* order, whatever the earlier repositories gave; the mapping returned has
\* exactly the configured paths as keys, each entry with a success flag and a
\* time stamp, and successful + failed is the number of entries; with no
\* repository configured the empty mapping is returned and nothing is called.
C9_OncePerRepository ==
    /\ Prefix(invoked, repositories)
    /\ pc \in {"discover"} => Len(invoked) = idx - 1
    /\ pc \notin {"start", "discover", "done"} => Len(invoked) = idx
    /\ DOMAIN results = Range(invoked) \ (IF pc \in {"start", "discover", "done"}
                                          THEN {} ELSE {repo_path})
    /\ pc = "done" =>
          /\ invoked = repositories
          /\ DOMAIN results = Range(repositories)
          /\ \A r \in DOMAIN results :
                /\ results[r].success \in BOOLEAN
                /\ results[r].timestamp \in 0..(Len(repositories) - 1)
                /\ results[r].message # ""
          /\ \A i, j \in DOMAIN repositories :
                i < j => results[repositories[i]].timestamp
                            < results[repositories[j]].timestamp
          /\ Successful + Failed = Len(repositories)
          /\ repositories = <<>> =>
                /\ results = <<>>
                /\ invoked = <<>>
                /\ files = InitialFiles /\ history = [r \in Repos |-> <<>>]

\* the first repository failed and the second one was still committed to
C9_Witness ==
    /\ pc = "done"
    /\ Len(repositories) = 2
    /\ ~results[repositories[1]].success
    /\ results[repositories[2]].success

\* where the run can be; an exception that left run_dynamic_commits would
\* put it nowhere among these
RunPositions ==
    {"start", "discover", "attempt", "provider", "apply",
     "git_add", "git_diff", "git_commit", "git_push", "record", "done"}

GitFaulted == \E i \in DOMAIN git_ops : git_ops[i].outcome \in {"failed", "raised"}

\* C10, as stated: every fault of a collaborator while a repository is
\* processed ends as a failed result for that repository.
C10_EveryFaultFails ==
    (pc = "record" /\ first_fault # "") => ~ret.success

\* C10, amended: no fault in discovery, file read, provider call, file write
\* or a git command escapes run_dynamic_commits: a fault in discovery or in a
\* git command ends as a failed result, with a message, for the repository
\* being processed; a fault in a file read, the provider call or the file
\* write ends the attempt only, so that repository's result is a failure
\* unless a later attempt succeeds; the run goes on until every listed
\* repository has its entry in the mapping returned.
C10_NoFaultEscapes ==
    /\ pc \in RunPositions
    /\ (pc = "record" /\ (first_fault = "discovery" \/ GitFaulted)) =>
          ~ret.success /\ ret.message # ""
    /\ (pc = "record" /\ first_fault # "" /\ ret.success) =>
          first_fault \in {"read", "provider", "write"} /\ attempt > 1
    /\ last_outcome \in {"read_failed", "write_failed"} =>
          pc \in {"attempt", "record"} /\ first_fault # ""
    /\ pc = "done" =>
          /\ DOMAIN results = Range(repositories)
          /\ \A r \in DOMAIN results : ~results[r].success => results[r].message # ""

\* discovery faulted in the first repository, whose entry says so, and the
\* second repository was processed
C10_Witness ==
    /\ pc = "done"
    /\ Len(repositories) = 2
    /\ results[repositories[1]] =
          [success |-> FALSE,
           message |-> "Error in dynamic commit: " \o StatError,
           timestamp |-> 0]
    /\ repositories[2] \in DOMAIN results

(***************************************************************************)
(* Properties of the functions                                             *)
(***************************************************************************)
HasAllowedExtension(f) == \E ext \in Range(file_extensions) : EndsWith(f, ext)

PathIsClean(f) ==
    \A p \in Range(ignore_patterns) \cup Range(SystemSkips) : ~Contains(f, p)

\* C11, as stated: every path find_code_files returns has an allowed
\* extension, no ignore-pattern or system-exclusion substring in its path,
\* and a size strictly above 50 and strictly below 50000 bytes.
C11_StrictSizeBounds ==
    \A f \in code_files :
        /\ HasAllowedExtension(f)
        /\ PathIsClean(f)
        /\ ByteSize(files[f]) > MinFileSize
        /\ ByteSize(files[f]) < MaxFileSize

\* C11, amended: every path find_code_files returns lies below the
\* repository root, has an allowed extension, no ignore-pattern or
\* system-exclusion substring in its path, and a size of at least 50 and at
\* most 50000 bytes; a file of exactly 50 or exactly 50000 bytes that passes
\* the other filters is returned.
C11_InclusiveSizeBounds ==
    pc = "found" =>
        /\ \A f \in code_files :
              /\ f \in DOMAIN files
              /\ InRepo(f, repo_path)
              /\ HasAllowedExtension(f)
              /\ PathIsClean(f)
              /\ ByteSize(files[f]) >= MinFileSize
              /\ ByteSize(files[f]) <= MaxFileSize
        /\ \A f \in DOMAIN files :
              (/\ InRepo(f, repo_path)
               /\ HasAllowedExtension(f)
               /\ PathIsClean(f)
               /\ ByteSize(files[f]) \in {MinFileSize, MaxFileSize}) => f \in code_files

\* the walk over the tree around the thresholds returned the files of 50 and
\* of 50000 bytes, and neither the smaller, the larger nor the excluded ones
C11_Witness ==
    /\ pc = "found"
    /\ files = BoundaryFiles
    /\ {Size50Py, Size50000Go} \subseteq code_files
    /\ code_files \cap {Size49Py, Size50001Rs, VenvPy, BuildTs, RebuildJs, DocMd} = {}

NewlineCount(text) == Cardinality({i \in 1..Len(text) : text[i] = "\n"})

\* C13: after a successful apply_code_modification the file is the lines
\* before start, then the replacement split on newline, then the lines after
\* end, start and end being the original indices of the first and the last
\* selected line: lines outside [start, end] keep content and order, and the
\* line count is the old one minus (end - start + 1) plus the number of
\* replacement lines (one more than the newlines of the text, so one for the
\* empty text).
C13_SpliceExact ==
    pc = "spliced" =>
        LET old == code_section.all_lines
            new == files[code_section.file_path]
            start == code_section.lines[1][1]
            end == code_section.lines[Len(code_section.lines)][1]
            count == NewlineCount(improved_code) + 1
        IN /\ Len(new) = Len(old) - (end - start + 1) + count
           /\ \A i \in 0..(start - 1) : new[i + 1] = old[i + 1]
           /\ \A i \in (end + 1)..(Len(old) - 1) :
                 new[i - (end - start + 1) + count + 1] = old[i + 1]
           /\ JoinLines(SubSeq(new, start + 1, start + count)) = improved_code
           /\ \A k \in (start + 1)..(start + count) : "\n" \notin Range(new[k])

\* lines 3 to 7 of the ten-line file were replaced by the empty text: six
\* lines are left, the fourth of them empty
C13_Witness ==
    /\ pc = "spliced"
    /\ code_section.all_lines = SectionLines
    /\ code_section.lines[1][1] = 3
    /\ code_section.lines[Len(code_section.lines)][1] = 7
    /\ improved_code = <<>>
    /\ Len(files[code_section.file_path]) = 6
    /\ files[code_section.file_path][4] = <<>>

(***************************************************************************)
(* Properties of an attempt                                                *)
(***************************************************************************)
\* the Applier succeeds in this step
ApplySucceeds == pc = "apply" /\ applied' = applied + 1

\* C14: whenever the Applier succeeds in the attempt loop, the lines of the
\* file after the write differ from the lines the Selector read, and a
\* successful apply is never followed by a successful staged-name query that
\* lists nothing.
C14_AppliedTextDiffers ==
    /\ [][ApplySucceeds =>
            files'[code_section.file_path] # code_section.all_lines]_vars
    /\ [](applied = 1 => \A i \in DOMAIN git_ops : git_ops[i] # GitOp("diff", "ok", {}))

(***************************************************************************)
(* Properties of the dispatch tables                                       *)
(***************************************************************************)
\* the prompt for a tag on the section at hand
PromptFor(tag) == get_improvement_prompt(code_section, tag)

OwnPromptTags ==
    {"improve_performance", "add_error_handling", "improve_readability", "optimize_code"}

OwnMessageTags ==
    OwnPromptTags \cup {"add_documentation", "add_type_safety", "refactor_logic"}

\* C15: the prompt is the tag's own template for improve_performance,
\* add_error_handling, improve_readability and optimize_code, and the
\* improve_readability prompt for every other tag; the commit message is the
\* tag's own entry for the seven vocabulary tags and "chore: improve code
\* quality" for every other tag; so for add_documentation, add_type_safety
\* and refactor_logic the prompt is the readability prompt and the commit
\* message is not the readability message.
C15_DispatchTotal ==
    pc = "dispatched" =>
        LET prompt == PromptFor(modification_type)
        IN /\ prompt[2] = code_section.language
           /\ prompt[4] = SelectedText(code_section)
           /\ prompt[1] =
                 CASE modification_type = "improve_performance" ->
                          "Improve the performance of this "
                   [] modification_type = "add_error_handling" ->
                          "Add proper error handling to this "
                   [] modification_type = "optimize_code" -> "Optimize this "
                   [] OTHER -> "Make this "
           /\ prompt[3] =
                 CASE modification_type \in {"improve_performance", "add_error_handling"} ->
                          " code. Only return the improved code, no explanations:\n\n"
                   [] modification_type = "optimize_code" ->
                          " code for better efficiency. Only return the improved code, no explanations:\n\n"
                   [] OTHER ->
                          " code more readable and clean. Only return the improved code, no explanations:\n\n"
           /\ modification_type \notin OwnPromptTags => prompt = PromptFor("improve_readability")
           /\ \A other \in OwnPromptTags \ {modification_type} :
                 modification_type \in OwnPromptTags => prompt # PromptFor(other)
           /\ commit_message =
                 CASE modification_type = "improve_performance" -> "perf: optimize code performance"
                   [] modification_type = "add_error_handling" -> "fix: improve error handling"
                   [] modification_type = "improve_readability" -> "refactor: improve code readability"
                   [] modification_type = "add_documentation" -> "docs: add code comments"
                   [] modification_type = "optimize_code" -> "perf: optimize implementation"
                   [] modification_type = "add_type_safety" -> "feat: enhance type safety"
                   [] modification_type = "refactor_logic" -> "refactor: simplify logic"
                   [] OTHER -> "chore: improve code quality"
           /\ modification_type \in OwnMessageTags <=> commit_message # "chore: improve code quality"
           /\ modification_type \in OwnMessageTags \ OwnPromptTags =>
                 /\ prompt = PromptFor("improve_readability")
                 /\ commit_message # "refactor: improve code readability"

\* add_documentation: the readability prompt with the documentation message
C15_Witness ==
    /\ pc = "dispatched"
    /\ modification_type = "add_documentation"
    /\ PromptFor(modification_type)[1] = "Make this "
    /\ commit_message = "docs: add code comments"

\* the stages of an attempt, and the ways it fails
AttemptStages == {"attempt", "provider", "apply"}

AttemptFailures == {"read_failed", "no_section", "no_result", "no_op", "write_failed"}

\* C16: in an attempt the stages run in the order select, provider, no-op
\* check, apply, commit workflow, each only after the one before succeeded
\* in the same attempt: the provider is called only right after a section
\* was selected, the Applier only right after the provider gave a non-empty
\* text that is not a no-op, the commit workflow only right after the
\* Applier succeeded; a failed selection, provider call, no-op check or
\* apply goes back to the loop head having used exactly the one attempt
\* that the selection started.
C16_StageOrder ==
    /\ [][(pc' = "provider" /\ pc # "provider") =>
            /\ pc = "attempt"
            /\ attempt' = attempt + 1
            /\ code_section' # NoSection
            /\ code_section'.all_lines = files[code_section'.file_path]
            /\ provider_calls' = provider_calls]_vars
    /\ [][provider_calls' > provider_calls =>
            pc = "provider" /\ provider_calls' = provider_calls + 1
                /\ code_section # NoSection /\ attempt' = attempt]_vars
    /\ [][(pc' = "apply" /\ pc # "apply") =>
            /\ pc = "provider"
            /\ provider_calls' = provider_calls + 1
            /\ improved_code' # <<>>
            /\ Strip(improved_code') # Strip(SelectedText(code_section))
            /\ code_section' = code_section
            /\ files' = files]_vars
    /\ [][files' # files => pc = "apply"]_vars
    /\ [][applied' > applied =>
            pc = "apply" /\ pc' = "git_add" /\ applied' = applied + 1
                /\ attempt' = attempt]_vars
    /\ [][(pc' = "git_add" /\ pc # "git_add") =>
            pc = "apply" /\ applied' = applied + 1 /\ git_ops = <<>>]_vars
    /\ [][git_ops' # git_ops /\ git_ops' # <<>> => applied = 1 /\ applied' = 1]_vars
    /\ [][(pc \in AttemptStages /\ pc' = "attempt" /\ last_outcome' \in AttemptFailures) =>
            /\ attempt' = attempt + (IF pc = "attempt" THEN 1 ELSE 0)
            /\ last_outcome' \in
                  CASE pc = "attempt" -> {"read_failed", "no_section"}
                    [] pc = "provider" -> {"no_result", "no_op"}
                    [] pc = "apply" -> {"write_failed"}
            /\ applied' = applied /\ git_ops' = git_ops]_vars
    /\ [][attempt' > attempt => pc = "attempt" /\ attempt' = attempt + 1]_vars
    /\ [](pc \in {"provider", "apply"} => last_outcome = "" /\ attempt >= 1)

\* two attempts failed at the selection, two later on, and the fifth one
\* reached the commit workflow
C16_Witness ==
    /\ pc = "git_add"
    /\ attempt = MaxAttempts
    /\ provider_calls = 3
    /\ applied = 1

(***************************************************************************)
(* Properties of the eligible set                                          *)
(***************************************************************************)
HasNoMarker(f) == \A marker \in Range(GeneratedMarkers) : ~Contains(f, marker)

\* a step that leaves discovery without a fault
Discovered == pc = "discover" /\ first_fault' = ""

InAttemptLoop == pc \in {"attempt", "provider", "apply"}

AllRecorded == pc = "done" /\ DOMAIN results = Range(repositories)

\* C18: if every provider call and every git call returns, the run ends
\* with an entry for every listed repository; the engine has no time-out:
\* a provider stage is left only by the provider's answer and a git stage
\* only by the git command's, the next repository is taken up only when the
\* current one is recorded, and the run is not complete before that, so a
\* call that never returns keeps the run, and the repositories after the
\* current one, waiting for ever.
C18_TerminatesIfCallsReturn ==
    /\ CollaboratorsReturn => <>AllRecorded
    /\ [][(pc = "provider" /\ pc' # pc) => provider_calls' = provider_calls + 1]_vars
    /\ [][(pc \in GitStages /\ pc' # pc) => Len(git_ops') = Len(git_ops) + 1]_vars
    /\ [][idx' # idx => pc \in {"start", "record"} /\ idx' = idx + 1]_vars
    /\ [](pc \in CollaboratorStages =>
            repo_path \notin DOMAIN results
              /\ \A i \in (idx + 1)..Len(repositories) : repositories[i] \notin Range(invoked))
    /\ (<>[](pc \in CollaboratorStages)) => [](pc # "done")

\* the provider is being called for the first of two repositories
C18_Witness ==
    /\ pc = "provider"
    /\ Len(repositories) = 2
    /\ idx = 1
    /\ results = <<>>

(***************************************************************************)
(* Overlapping invocations                                                 *)
(***************************************************************************)
\* the second invocation wrote the file while this one held a code_section
\* of it, and this one then wrote it in that same attempt
WroteOverPeer ==
    /\ pc \in GitStages
    /\ applied = 1
    /\ peer.pc = "written"
    /\ peer.during = attempt

\* the lines the second invocation put into the file
PeerNewLines ==
    Range(SplitLines(peer.improved_code)) \ Range(peer.code_section.all_lines)

\* C19: with a second invocation running on the same repository, this
\* invocation's write replaces the whole file by the splice of the lines it
\* read at selection, whatever the file holds by then, and goes on to the
\* commit workflow: once it has written over a write the other invocation
\* made in between, every line outside the replaced range is the one of its
\* own earlier read, so what the other invocation wrote there is gone.
C19_WriteFromSnapshot ==
    /\ [][ApplySucceeds =>
            /\ files'[code_section.file_path] =
                  WrittenLines(modified_lines(code_section, improved_code))
            /\ pc' = "git_add"]_vars
    /\ [](WroteOverPeer =>
            LET snapshot == peer.under.all_lines
                start_line == peer.under.lines[1][1]
                end_line == peer.under.lines[Len(peer.under.lines)][1]
                now == files[peer.under.file_path]
                tail == Len(snapshot) - (end_line + 1)
            IN /\ SubSeq(now, 1, start_line) = SubSeq(snapshot, 1, start_line)
               /\ SubSeq(now, Len(now) - tail + 1, Len(now))
                    = SubSeq(snapshot, end_line + 2, Len(snapshot)))

\* the lost update: the other invocation's new lines are nowhere in the file
C19_Witness ==
    /\ WroteOverPeer
    /\ PeerNewLines # {}
    /\ PeerNewLines \cap Range(files[peer.code_section.file_path]) = {}
    /\ \A i \in DOMAIN git_ops : git_ops[i].outcome = "ok"

(***************************************************************************)
(* Serial execution                                                        *)
(***************************************************************************)
\* the engine writes the file (successfully or not)
WritesFile == files' # files

\* C20: in a run with no other invocation, from the selection to the write
\* the code_section holds exactly what the file holds: the section was read
\* from the file in this attempt, the engine writes files only in its apply
\* step, and so the write splices the file's current lines, also when the
\* file was picked and written (or truncated by a failed write) in an
\* earlier attempt of the run.
C20_NoStaleSnapshot ==
    /\ [][pc = "attempt" /\ pc' = "provider" =>
            /\ code_section'.all_lines = files[code_section'.file_path]
            /\ files' = files]_vars
    /\ [](pc \in {"provider", "apply"} =>
            code_section.all_lines = files[code_section.file_path])
    /\ [][WritesFile =>
            /\ pc = "apply"
            /\ \A f \in Files \ {code_section.file_path} : files'[f] = files[f]]_vars
    /\ [][ApplySucceeds =>
            files'[code_section.file_path] =
              WrittenLines(modified_lines(
                  [code_section EXCEPT !.all_lines = files[code_section.file_path]],
                  improved_code))]_vars

\* the write of a later attempt after the write of an earlier attempt
\* failed, on the same file: no other eligible file can give a section
C20_Witness ==
    /\ pc = "apply"
    /\ attempt > 1
    /\ first_fault = "write"
    /\ \A f \in existing_files \ {code_section.file_path} : SelectableSections(files[f]) = {}
    /\ peer = NoPeer

(***************************************************************************)
(* What a failed attempt loop leaves behind                                *)
(***************************************************************************)
\* the three results of make_dynamic_commit that come without a successful
\* apply (lines 310, 323, 359)
NoApplyMessages ==
    { "No suitable code files found",
      "No existing source files found to modify",
      "Could not generate suitable modifications after 5 attempts" }

\* make_dynamic_commit has just returned one of them
ReturnedWithoutApply == pc = "record" /\ ret.message \in NoApplyMessages

\* the working tree of the repository is as it was when the run began (every
\* repository is listed once, and its files are written in its own
\* make_dynamic_commit only)
TreeUntouched(repo) ==
    \A f \in Files : InRepo(f, repo) => files[f] = InitialFiles[f]

\* C21: whenever make_dynamic_commit returns "No suitable code files
\* found", "No existing source files found to modify" or "Could not generate
\* suitable modifications after 5 attempts", no file of the repository was
\* changed and no git command was issued for it.
C21_FailedLoopLeavesRepoUntouched ==
    ReturnedWithoutApply => TreeUntouched(repo_path) /\ git_ops = <<>> /\ applied = 0

(***************************************************************************)
(* One mutation per commit                                                 *)
(***************************************************************************)
\* git commit has just made a commit in the repository
CommitCreated ==
    pc = "git_commit" /\ Len(history'[repo_path]) = Len(history[repo_path]) + 1

\* C22: over consecutive runs on a repository, every commit the engine
\* makes holds the changes of exactly one applied mutation: its parent is the
\* working tree as the write of this run found it, and its content is that
\* tree with the write applied; a mutation an earlier run wrote and failed
\* to commit is not in it.
C22_OneMutationPerCommit ==
    [][CommitCreated =>
        \A f \in Files : InRepo(f, repo_path) =>
            /\ head[f] = before_apply[f]
            /\ head'[f] = files[f]]_vars

====
